---- MODULE Spec2Model ----
(***************************************************************************)
(* Market-pulse dashboard (src/app.py): the composite score of one row,    *)
(* the alignment of the auxiliary series onto the primary index, the       *)
(* breadth proxy and the risk-signal rules.                                *)
(*                                                                         *)
(* Numbers.  A Python/numpy float is a record [nan, v]: nan says the value *)
(* is NaN (pandas' "undefined"), v is the value counted in sixtieths       *)
(* (v = 60 * x), so that every division the code makes (by 3, 5, 1.5, 4)   *)
(* is exact on the input grids used below.  The arithmetic is that of the  *)
(* rationals; the rounding of IEEE doubles is not modelled.                *)
(***************************************************************************)
EXTENDS Integers, Sequences, FiniteSets, TLC

VARIABLES
    phase,            \* position of the script
    \* scoring (lines 148-219)
    row,              \* the row handed to calculate_composite_score
    vix_series,       \* vix_series, a function from dates to floats
    pcr_series,       \* pcr_series, a function from dates to floats
    Composite_Score,  \* the value calculate_composite_score returned
    \* alignment (lines 137-145)
    common_index,     \* the dates of primary_df
    aux_name,         \* which auxiliary series is followed
    aux,              \* that series on its own dates
    aligned,          \* that series once put on common_index
    \* breadth proxy (lines 117-121)
    spy_close,        \* spy_df['Close'], oldest first
    Breadth_Proxy,    \* spy_df['Breadth_Proxy']
    \* risk signals (lines 222-263)
    primary_df,       \* the table, one record per date, oldest first
    pos,              \* rows given to identify_risk_signals so far
    risks             \* the list returned for each of them

scoreVars == <<row, vix_series, pcr_series, Composite_Score>>

alignVars == <<common_index, aux_name, aux, aligned>>

breadthVars == <<spy_close, Breadth_Proxy>>

riskVars == <<primary_df, pos, risks>>

vars == <<phase, scoreVars, alignVars, breadthVars, riskVars>>

----------------------------------------------------------------------------
(* Floats *)

NaN == [nan |-> TRUE, v |-> 0]

Num(x) == [nan |-> FALSE, v |-> x]

\* n/d as a count of sixtieths
Q(n, d) == (n * 60) \div d

\* IEEE comparisons: every comparison with NaN is false
Lt(a, b) == ~a.nan /\ ~b.nan /\ a.v < b.v

Gt(a, b) == ~a.nan /\ ~b.nan /\ a.v > b.v

Ge(a, b) == ~a.nan /\ ~b.nan /\ a.v >= b.v

\* IEEE arithmetic: NaN propagates
Add(a, b) == IF a.nan \/ b.nan THEN NaN ELSE Num(a.v + b.v)

Sub(a, b) == IF a.nan \/ b.nan THEN NaN ELSE Num(a.v - b.v)

\* a * n / d for integers n, d (a * 1.5 is MulDiv(a, 3, 2), a / 1.5 is MulDiv(a, 2, 3))
MulDiv(a, n, d) == IF a.nan THEN NaN ELSE Num((a.v * n) \div d)

Abs(a) == IF a.nan THEN NaN ELSE Num(IF a.v < 0 THEN -a.v ELSE a.v)

\* Python's builtin min(a, b): b when b < a, else a
PyMin(a, b) == IF Lt(b, a) THEN b ELSE a

\* Python's builtin max(a, b): b when b > a, else a
PyMax(a, b) == IF Gt(b, a) THEN b ELSE a

\* Series.get(key, default): the default only when the key is absent
Get(series, key, default) == IF key \in DOMAIN series THEN series[key] ELSE default

----------------------------------------------------------------------------
(* calculate_composite_score *)

DevAvg(r) ==
    MulDiv(Add(Add(Get(r, "Dev_50", Num(0)), Get(r, "Dev_100", Num(0))),
               Get(r, "Dev_200", Num(0))), 1, 3)

\* the moderate band taken as (0, 5) instead of (-2, 5)
DevAdjNarrowBand(dev_avg) ==
    IF Lt(Num(0), dev_avg) /\ Lt(dev_avg, Num(Q(5, 1))) THEN Num(Q(10, 1))
    ELSE IF Lt(dev_avg, Num(Q(-10, 1))) \/ Gt(dev_avg, Num(Q(15, 1))) THEN Num(Q(-15, 1))
    ELSE Sub(Num(Q(5, 1)), MulDiv(Abs(dev_avg), 1, 5))

DevAdj(dev_avg) ==
    IF Lt(Num(Q(-2, 1)), dev_avg) /\ Lt(dev_avg, Num(Q(5, 1))) THEN Num(Q(10, 1))
    ELSE IF Lt(dev_avg, Num(Q(-10, 1))) \/ Gt(dev_avg, Num(Q(15, 1))) THEN Num(Q(-15, 1))
    ELSE Sub(Num(Q(5, 1)), MulDiv(Abs(dev_avg), 1, 5))

\* the linear branch divided by 2 instead of 1.5
VixAdjHalved(vix_val) ==
    IF Lt(vix_val, Num(Q(16, 1))) THEN Num(Q(10, 1))
    ELSE IF Gt(vix_val, Num(Q(30, 1))) THEN Num(Q(-10, 1))
    ELSE MulDiv(Sub(Num(Q(30, 1)), vix_val), 1, 2)

VixAdj(vix_val) ==
    IF Lt(vix_val, Num(Q(16, 1))) THEN Num(Q(10, 1))
    ELSE IF Gt(vix_val, Num(Q(30, 1))) THEN Num(Q(-10, 1))
    ELSE MulDiv(Sub(Num(Q(30, 1)), vix_val), 2, 3)

BreadthAdj(breadth_val) ==
    IF Gt(breadth_val, Num(Q(70, 1))) THEN Num(Q(15, 2))
    ELSE IF Lt(breadth_val, Num(Q(30, 1))) THEN Num(Q(-15, 2))
    ELSE MulDiv(Sub(breadth_val, Num(Q(50, 1))), 1, 4)

SpreadAdj(spread_val) ==
    IF Lt(spread_val, Num(Q(-2, 1))) THEN Num(Q(15, 2))
    ELSE IF Gt(spread_val, Num(Q(5, 1))) THEN Num(Q(-15, 2))
    ELSE Sub(Num(0), MulDiv(spread_val, 3, 2))

YieldAdj(yield_val) ==
    IF Gt(yield_val, Num(Q(1, 10))) THEN Num(Q(15, 2))
    ELSE IF Lt(yield_val, Num(Q(-2, 10))) THEN Num(Q(-15, 2))
    ELSE MulDiv(yield_val, 30, 1)

PcrAdj(pcr_val) ==
    IF Lt(pcr_val, Num(Q(8, 10))) THEN Num(Q(-5, 1))
    ELSE IF Gt(pcr_val, Num(Q(12, 10))) THEN Num(Q(5, 1))
    ELSE MulDiv(Sub(Num(Q(1, 1)), pcr_val), 10, 1)

\* +5 instead of +2.5 for strong momentum
MomAdjDoubled(mom_val) ==
    IF Gt(mom_val, Num(Q(3, 1))) THEN Num(Q(5, 1))
    ELSE IF Lt(mom_val, Num(Q(-3, 1))) THEN Num(Q(-5, 2))
    ELSE MulDiv(mom_val, 2, 3)

MomAdj(mom_val) ==
    IF Gt(mom_val, Num(Q(3, 1))) THEN Num(Q(5, 2))
    ELSE IF Lt(mom_val, Num(Q(-3, 1))) THEN Num(Q(-5, 2))
    ELSE MulDiv(mom_val, 2, 3)

\* the seven adjustments of a row, in the order the code adds them
Adjustments(r, vix, pcr) ==
    << DevAdj(DevAvg(r)),
       VixAdj(Get(vix, r.name, Num(Q(20, 1)))),
       BreadthAdj(Get(r, "Breadth", Num(Q(50, 1)))),
       SpreadAdj(Get(r, "Junk_Spread", Num(0))),
       YieldAdj(Get(r, "Yield_Curve", Num(0))),
       PcrAdj(Get(pcr, r.name, Num(Q(1, 1)))),
       MomAdj(Get(r, "Momentum_5D", Num(0))) >>

RECURSIVE ScoreAfter(_, _)
\* the local variable score after the first k adjustments were added
ScoreAfter(adjs, k) ==
    IF k = 0 THEN Num(Q(50, 1)) ELSE Add(ScoreAfter(adjs, k - 1), adjs[k])

\* score as it stands on line 216, before the clamp
RawScore(r, vix, pcr) == ScoreAfter(Adjustments(r, vix, pcr), 7)

\* the clamp without its lower bound
ClampNoFloor(score) == PyMin(Num(Q(100, 1)), score)

Clamp(score) == PyMax(Num(0), PyMin(Num(Q(100, 1)), score))

calculate_composite_score(r, vix, pcr) == Clamp(RawScore(r, vix, pcr))

----------------------------------------------------------------------------
(* Input grids of the scoring run *)

Vals(S) == {NaN} \cup {Num(Q(x, 1)) : x \in S}

Tenths(S) == {NaN} \cup {Num(Q(x, 10)) : x \in S}

\* rows over the whole domain of the function: each field undefined or at a
\* value of each branch of its rule, whether or not the pipeline produces it
ScoreRows ==
    [ name : {1},
      Dev_50 : Vals({-12, 0, 18}),
      Dev_100 : Vals({-12, 0, 18}),
      Dev_200 : Vals({-12, 0, 9, 18}),
      Breadth : Vals({0, 50, 70, 100}),
      Junk_Spread : Vals({-3, 0, 5, 6}),
      Yield_Curve : Tenths({-3, 0, 2}),
      Momentum_5D : Vals({-4, 0, 4}) ]

\* the variables of the parts of the script a run does not follow
NoAlign == common_index = {} /\ aux_name = "none" /\ aux = <<>> /\ aligned = <<>>

NoBreadth == spy_close = <<>> /\ Breadth_Proxy = <<>>

NoRisk == primary_df = <<>> /\ pos = 0 /\ risks = <<>>

NoScore == row = <<>> /\ Composite_Score = NaN

InitScore ==
    /\ row \in ScoreRows
    /\ vix_series \in [{1} -> Vals({10, 16, 20, 30, 40})]
    /\ pcr_series \in [{1} -> Tenths({7, 10, 13})]
    /\ Composite_Score = NaN
    /\ phase = "aligned"
    /\ NoAlign /\ NoBreadth /\ NoRisk

\* line 219, for one row of the table
ApplyScore ==
    /\ phase = "aligned"
    /\ Composite_Score' = calculate_composite_score(row, vix_series, pcr_series)
    /\ phase' = "scored"
    /\ UNCHANGED <<row, vix_series, pcr_series, alignVars, breadthVars, riskVars>>

NextScore == ApplyScore

Spec == InitScore /\ [][NextScore]_vars

----------------------------------------------------------------------------
(* Properties of the composite score *)

Scored == phase = "scored"

Adjs == Adjustments(row, vix_series, pcr_series)

Raw == RawScore(row, vix_series, pcr_series)

ScoreInputs ==
    << row.Dev_50, row.Dev_100, row.Dev_200, vix_series[row.name], row.Breadth,
       row.Junk_Spread, row.Yield_Curve, pcr_series[row.name], row.Momentum_5D >>

AllDefined == \A k \in 1..Len(ScoreInputs) : ~ScoreInputs[k].nan

\* every sub-signal at its neutral value: dev 0, vix 20, breadth 50, spread 0,
\* yield 0, pcr 1.0, momentum 0
AllNeutral ==
    ScoreInputs = << Num(0), Num(0), Num(0), Num(Q(20, 1)), Num(Q(50, 1)),
                     Num(0), Num(0), Num(Q(1, 1)), Num(0) >>

\* C1: whatever the seven inputs are, undefined ones included, the score
\* returned for the row is a number s with 0 <= s <= 100.
C1_ScoreInRange ==
    Scored => /\ ~Composite_Score.nan
              /\ 0 <= Composite_Score.v
              /\ Composite_Score.v <= Q(100, 1)

\* a row of partial history (Dev_200 undefined) has been scored
C1_Witness == Scored /\ row.Dev_200.nan /\ ~row.Dev_50.nan /\ Composite_Score = Num(Q(100, 1))

\* C2 as stated: with every sub-signal at its neutral value the score is
\* exactly 50.
C2_NeutralIsFifty == (Scored /\ AllNeutral) => Composite_Score = Num(Q(50, 1))

\* C2 amended: with every sub-signal at its neutral value the score is exactly
\* 50 + 10 + 10/1.5 = 200/3: dev_avg = 0 earns +10, vix = 20 earns +10/1.5 and
\* the other five adjustments are zero.
C2_NeutralScore ==
    (Scored /\ AllNeutral) =>
        /\ Composite_Score = Num(Q(200, 3))
        /\ Adjs = << Num(Q(10, 1)), Num(Q(20, 3)), Num(0), Num(0), Num(0), Num(0), Num(0) >>

C2_Witness == Scored /\ AllNeutral /\ Composite_Score.v = 4000

\* the documented default of each input, put in place of an undefined value
OrDefault(x, default) == IF x.nan THEN default ELSE x

RowWithDefaults ==
    [ name |-> row.name,
      Dev_50 |-> OrDefault(row.Dev_50, Num(0)),
      Dev_100 |-> OrDefault(row.Dev_100, Num(0)),
      Dev_200 |-> OrDefault(row.Dev_200, Num(0)),
      Breadth |-> OrDefault(row.Breadth, Num(Q(50, 1))),
      Junk_Spread |-> OrDefault(row.Junk_Spread, Num(0)),
      Yield_Curve |-> OrDefault(row.Yield_Curve, Num(0)),
      Momentum_5D |-> OrDefault(row.Momentum_5D, Num(0)) ]

\* C3: the score of a row with undefined inputs is the score of the same row
\* with each undefined input replaced by its documented default.
C3_UndefinedScoresAsDefault ==
    Scored => Composite_Score =
        calculate_composite_score(RowWithDefaults,
            [d \in DOMAIN vix_series |-> OrDefault(vix_series[d], Num(Q(20, 1)))],
            [d \in DOMAIN pcr_series |-> OrDefault(pcr_series[d], Num(Q(1, 1)))])

\* the volatility adjustment as the claim states it: +10 below 16, -10 above
\* 30, and (30 - v)/1.5 between, i.e. 3 * adjustment = 2 * (30 - v)
VixAsClaimed(v, a) ==
    IF v < Q(16, 1) THEN a = Q(10, 1)
    ELSE IF v > Q(30, 1) THEN a = Q(-10, 1)
    ELSE 3 * a = 2 * (Q(30, 1) - v)

SumOf(adjs, ks) == LET RECURSIVE S(_)
                      S(T) == IF T = {} THEN 0
                              ELSE LET k == CHOOSE k \in T : TRUE
                                   IN adjs[k].v + S(T \ {k})
                  IN S(ks)

MaxAdjustments ==
    << Num(Q(10, 1)), Num(Q(10, 1)), Num(Q(15, 2)), Num(Q(15, 2)), Num(Q(15, 2)),
       Num(Q(5, 1)), Num(Q(5, 2)) >>

\* C10: with all seven inputs defined the sum before the clamp lies in
\* [-5, 100]; the bound 100 of the clamp leaves it unchanged, and 100 is
\* reached only with all seven adjustments at their maxima.
C10_RawScoreRange ==
    (Scored /\ AllDefined) =>
        /\ ~Raw.nan
        /\ Q(-5, 1) <= Raw.v /\ Raw.v <= Q(100, 1)
        /\ PyMin(Num(Q(100, 1)), Raw) = Raw
        /\ (Raw.v = Q(100, 1) => Adjs = MaxAdjustments)
        /\ (Composite_Score # Raw => (Raw.v < 0 /\ Composite_Score = Num(0)))

\* the pre-clamp sum is negative and the clamp's lower bound has replaced it
C10_Witness == Scored /\ AllDefined /\ Raw = Num(Q(-5, 1)) /\ Composite_Score = Num(0)

----------------------------------------------------------------------------
(* Series alignment (lines 137-145).  A series is a function from its dates *)
(* to floats.  The five auxiliary series are aligned independently of one   *)
(* another, each as a function of common_index and of itself alone, so a    *)
(* run follows one of them, named by aux_name.                              *)

MaxDay == 5

Days == 1..MaxDay

\* Series.reindex(index): the value on an exact date, NaN elsewhere
Reindex(series, index) ==
    [d \in index |-> IF d \in DOMAIN series THEN series[d] ELSE NaN]

\* fills a NaN with the next defined value instead of the last one
Bfill(series) ==
    [d \in DOMAIN series |->
        IF ~series[d].nan THEN series[d]
        ELSE LET later == {e \in DOMAIN series : e > d /\ ~series[e].nan}
             IN IF later = {} THEN NaN
                ELSE series[CHOOSE e \in later : \A f \in later : e <= f]]

\* Series.ffill(): a NaN takes the last defined value before it in the series
Ffill(series) ==
    [d \in DOMAIN series |->
        IF ~series[d].nan THEN series[d]
        ELSE LET earlier == {e \in DOMAIN series : e < d /\ ~series[e].nan}
             IN IF earlier = {} THEN NaN
                ELSE series[CHOOSE e \in earlier : \A f \in earlier : f <= e]]

\* primary_df[column] = series: pandas aligns the series on the frame's index
AssignedColumn(series, index) == Reindex(series, index)

\* series.reindex(common_index).ffill()
ReindexFfill(series, index) == Ffill(Reindex(series, index))

Assigned == {"Breadth", "Junk_Spread", "Yield_Curve"}

Filled == {"vix", "pcr"}

\* the values a series can hold
AuxValues(name) ==
    CASE name = "Breadth" -> {Num(0), Num(Q(100, 1))}
      [] name = "Junk_Spread" -> {NaN, Num(Q(-3, 1)), Num(Q(6, 1))}
      [] name = "Yield_Curve" -> {Num(Q(2, 10)), Num(Q(7, 10))}
      [] name = "vix" -> {Num(Q(15, 1)), Num(Q(40, 1))}
      [] name = "pcr" -> {NaN, Num(Q(9, 10)), Num(Q(14, 10))}

\* the dates a series can have: Yield_Curve is built on primary_df.index
\* itself (line 134), the others come with the dates of their own download
AuxDates(name, index) ==
    IF name = "Yield_Curve" THEN {index} ELSE SUBSET Days

InitAlign ==
    /\ common_index \in (SUBSET Days) \ {{}}
    /\ aux_name \in Assigned \cup Filled
    /\ \E dates \in AuxDates(aux_name, common_index) :
           aux \in [dates -> AuxValues(aux_name)]
    /\ aligned = <<>>
    /\ phase = "computed"
    /\ NoScore /\ vix_series = <<>> /\ pcr_series = <<>>
    /\ NoBreadth /\ NoRisk

\* lines 138-140
AssignColumn ==
    /\ phase = "computed"
    /\ aux_name \in Assigned
    /\ aligned' = AssignedColumn(aux, common_index)
    /\ phase' = "aligned"
    /\ UNCHANGED <<common_index, aux_name, aux, scoreVars, breadthVars, riskVars>>

\* lines 144-145
AlignSeries ==
    /\ phase = "computed"
    /\ aux_name \in Filled
    /\ aligned' = ReindexFfill(aux, common_index)
    /\ phase' = "aligned"
    /\ UNCHANGED <<common_index, aux_name, aux, scoreVars, breadthVars, riskVars>>

NextAlign == AssignColumn \/ AlignSeries

SpecAlign == InitAlign /\ [][NextAlign]_vars

----------------------------------------------------------------------------
(* Properties of the alignment *)

AlignedDone == phase = "aligned" /\ aux_name # "none"

\* the dates on which the series has an observation
Observed == {a \in DOMAIN aux : ~aux[a].nan}

\* C5: the aligned value on a primary date d is that of an observation dated
\* at or before d; on every primary date earlier than the first observation
\* the aligned field is undefined.
C5_NoLookahead ==
    AlignedDone =>
        \A d \in common_index :
            /\ ~aligned[d].nan => \E a \in Observed : a <= d /\ aux[a] = aligned[d]
            /\ (\A a \in Observed : d < a) => aligned[d].nan

\* one observation, on day 3, and primary dates 1..5: days 1 and 2 stay
\* undefined, days 3 to 5 carry the observation
C5_Witness ==
    /\ AlignedDone /\ aux_name = "vix"
    /\ common_index = 1..5 /\ DOMAIN aux = {3}
    /\ aligned[1].nan /\ aligned[2].nan
    /\ aligned[3] = aux[3] /\ aligned[5] = aux[3]

\* C6: on a primary date d without an observation on d itself but with one
\* before d, the aligned value is the most recent observation before d.
C6_CarryForward ==
    AlignedDone =>
        \A d \in common_index :
            LET before == {a \in Observed : a < d}
            IN (d \notin Observed /\ before # {}) =>
                   aligned[d] = aux[CHOOSE a \in before : \A b \in before : b <= a]

----------------------------------------------------------------------------
(* calculate_market_breadth (lines 117-121).  spy_close is the Close column *)
(* of spy_df, oldest first; closes are multiples of 50 sixtieths, so the    *)
(* mean of a window of 50 is exact.                                         *)

BreadthWindow == 50

MaxExtraBars == 2

RECURSIVE SumV(_, _, _)
\* close[lo].v + ... + close[hi].v
SumV(close, lo, hi) == IF lo > hi THEN 0 ELSE close[hi].v + SumV(close, lo, hi - 1)

\* Series.rolling(w).mean() at position i: NaN before w observations
RollingMean(close, w, i) ==
    IF i < w \/ \E k \in (i - w + 1)..i : close[k].nan THEN NaN
    ELSE Num(SumV(close, i - w + 1, i) \div w)

\* (close > rolling mean).astype(int) * 100: a false comparison, as every
\* comparison with NaN is, becomes 0
calculate_market_breadth(close) ==
    [i \in 1..Len(close) |->
        IF Gt(close[i], RollingMean(close, BreadthWindow, i))
        THEN Num(Q(100, 1)) ELSE Num(0)]

\* closes that stay at one level and move to another from day k on
StepSeries(n, k, before, after) ==
    [i \in 1..n |-> IF i < k THEN Num(Q(before, 1)) ELSE Num(Q(after, 1))]

InitBreadth ==
    /\ \E n \in 1..(BreadthWindow + MaxExtraBars), before \in {100, 200}, after \in {100, 200} :
           \E k \in 1..(n + 1) : spy_close = StepSeries(n, k, before, after)
    /\ Breadth_Proxy = <<>>
    /\ phase = "fetched"
    /\ NoScore /\ vix_series = <<>> /\ pcr_series = <<>>
    /\ NoAlign /\ NoRisk

\* line 120
CalculateMarketBreadth ==
    /\ phase = "fetched"
    /\ Breadth_Proxy' = calculate_market_breadth(spy_close)
    /\ phase' = "computed"
    /\ UNCHANGED <<spy_close, scoreVars, alignVars, riskVars>>

NextBreadth == CalculateMarketBreadth

SpecBreadth == InitBreadth /\ [][NextBreadth]_vars

\* C9: from the 50th date on the breadth is 100 when the close is above the
\* mean of the trailing 50 closes and 0 otherwise; on each of the first 49
\* dates it is undefined.
C9_BreadthProxy ==
    (phase = "computed" /\ spy_close # <<>>) =>
        \A i \in 1..Len(spy_close) :
            IF i >= BreadthWindow
            THEN Breadth_Proxy[i] =
                     IF BreadthWindow * spy_close[i].v > SumV(spy_close, i - BreadthWindow + 1, i)
                     THEN Num(Q(100, 1)) ELSE Num(0)
            ELSE Breadth_Proxy[i].nan

\* the part of C9 the code does compute: the value from the 50th date on
C9_DefinedPart ==
    (phase = "computed" /\ spy_close # <<>>) =>
        \A i \in BreadthWindow..Len(spy_close) :
            Breadth_Proxy[i] =
                IF BreadthWindow * spy_close[i].v > SumV(spy_close, i - BreadthWindow + 1, i)
                THEN Num(Q(100, 1)) ELSE Num(0)

----------------------------------------------------------------------------
(* identify_risk_signals (lines 222-263).  primary_df is a sequence of      *)
(* records, oldest first; the date of a row is its position, so that        *)
(* primary_df.index.get_loc(row.name) is row.name - 1 and index[-1] is      *)
(* Len(primary_df).  A signal is <<title, severity>>.                       *)

TailWindow == 20

MaxExtraRows == 1

\* the positions of DataFrame.tail(k)
TailRows(df, k) == {i \in 1..Len(df) : i > Len(df) - k}

\* Series.max(): the largest defined value, NaN when there is none
SeriesMax(values) ==
    LET defined == {x \in values : ~x.nan}
    IN IF defined = {} THEN NaN
       ELSE CHOOSE x \in defined : \A y \in defined : y.v <= x.v

\* rule 1, lines 229-232
VolatilityRule(vix_val) ==
    IF Gt(vix_val, Num(Q(35, 1))) THEN << <<"extreme volatility", "high">> >>
    ELSE IF Gt(vix_val, Num(Q(25, 1))) THEN << <<"elevated volatility", "medium">> >>
    ELSE << >>

\* the two tests of line 240
Exhausted(df, name) ==
    LET recent_high == SeriesMax({df[i].Close : i \in TailRows(df, TailWindow)})
        recent_breadth_high == SeriesMax({df[i].Breadth : i \in TailRows(df, TailWindow)})
        current_price == df[name].Close
        current_breadth == df[name].Breadth
    IN /\ Ge(current_price, MulDiv(recent_high, 99, 100))
       /\ Lt(current_breadth, MulDiv(recent_breadth_high, 95, 100))

\* rule 2 without the test of line 235
BreadthExhaustionAnyRow(df, name) ==
    IF Exhausted(df, name) THEN << <<"breadth exhaustion", "medium">> >> ELSE << >>

\* rule 2, lines 235-241
BreadthExhaustion(df, name) ==
    IF name = Len(df) /\ Exhausted(df, name)
    THEN << <<"breadth exhaustion", "medium">> >> ELSE << >>

\* rule 3 without the look at the previous row
DeathCrossNoPrev(df, name) ==
    IF Lt(df[name].MA_50, df[name].MA_200) /\ name - 1 > 0
    THEN << <<"death cross", "high">> >> ELSE << >>

\* rule 3, lines 244-248
DeathCross(df, name) ==
    IF /\ "MA_50" \in DOMAIN df[name] /\ "MA_200" \in DOMAIN df[name]
       /\ Lt(df[name].MA_50, df[name].MA_200) /\ name - 1 > 0
       /\ Ge(df[name - 1].MA_50, df[name - 1].MA_200)
    THEN << <<"death cross", "high">> >> ELSE << >>

\* rule 4, lines 251-254
SentimentRule(pcr_val) ==
    IF Gt(pcr_val, Num(Q(13, 10))) THEN << <<"extreme bearish sentiment", "medium">> >>
    ELSE IF Lt(pcr_val, Num(Q(6, 10))) THEN << <<"extreme bullish sentiment", "medium">> >>
    ELSE << >>

\* rule 5, lines 257-261
DeviationRule(dev_200) ==
    IF Gt(dev_200, Num(Q(15, 1))) THEN << <<"severe overbought", "medium">> >>
    ELSE IF Lt(dev_200, Num(Q(-15, 1))) THEN << <<"severe oversold", "low">> >>
    ELSE << >>

identify_risk_signals(df, name, vix, pcr) ==
    VolatilityRule(Get(vix, name, Num(Q(20, 1))))
    \o BreadthExhaustion(df, name)
    \o DeathCross(df, name)
    \o SentimentRule(Get(pcr, name, Num(Q(1, 1))))
    \o DeviationRule(Get(df[name], "Dev_200", Num(0)))

----------------------------------------------------------------------------
(* Tables of the risk run: a last row and the row before it drawn freely,  *)
(* and, in the long tables, an oldest row followed by identical rows that  *)
(* bring the table to the length of the tail window or beyond it.          *)

MaPairs ==
    [ below |-> <<Num(Q(1, 1)), Num(Q(2, 1))>>,
      equal |-> <<Num(Q(2, 1)), Num(Q(2, 1))>>,
      above |-> <<Num(Q(3, 1)), Num(Q(2, 1))>>,
      short |-> <<NaN, NaN>> ]

RiskRow(close, breadth, ma, dev) ==
    [ Close |-> Num(Q(close, 1)), Breadth |-> breadth,
      MA_50 |-> MaPairs[ma][1], MA_200 |-> MaPairs[ma][2], Dev_200 |-> dev ]

\* volatility index, sentiment ratio and deviation of a run, the same on
\* every date
Scenarios ==
    { <<Num(Q(20, 1)), Num(Q(1, 1)), Num(0)>>,
      <<Num(Q(30, 1)), Num(Q(14, 10)), Num(Q(20, 1))>>,
      <<Num(Q(40, 1)), Num(Q(5, 10)), Num(Q(-20, 1))>> }

LastRows(dev) ==
    { RiskRow(c, b, m, dev) : c \in {9800, 9900, 10000},
                              b \in Vals({50, 95, 100}),
                              m \in {"below", "above", "short"} }

PrevRows(dev) ==
    { RiskRow(c, Num(Q(50, 1)), m, dev) : c \in {9800, 10000},
                                          m \in {"below", "equal", "above", "short"} }

OldRows(dev) ==
    { RiskRow(c, b, "above", dev) : c \in {9800, 10000},
                                    b \in {Num(0), Num(Q(100, 1))} }

PadRows(dev) == { RiskRow(9800, Num(Q(100, 1)), m, dev) : m \in {"below", "above"} }

PadLens == { TailWindow - 3 + e : e \in 0..MaxExtraRows }

Tables(dev) ==
    { <<last>> : last \in LastRows(dev) }
    \cup { <<prev, last>> : prev \in PrevRows(dev), last \in LastRows(dev) }
    \cup UNION { { <<old>> \o [i \in 1..m |-> pad] \o <<prev, last>> :
                     old \in OldRows(dev), pad \in PadRows(dev),
                     prev \in PrevRows(dev), last \in LastRows(dev) } :
                 m \in PadLens }

InitRisk ==
    /\ \E sc \in Scenarios :
          /\ primary_df \in Tables(sc[3])
          /\ vix_series = [d \in 1..Len(primary_df) |-> sc[1]]
          /\ pcr_series = [d \in 1..Len(primary_df) |-> sc[2]]
    /\ pos = 0
    /\ risks = <<>>
    /\ phase = "scored"
    /\ NoScore /\ NoAlign /\ NoBreadth

\* identify_risk_signals on the next row of the table, oldest row first (the
\* script itself calls it on primary_df.iloc[-1], line 358)
IdentifyRiskSignals ==
    /\ phase = "scored"
    /\ pos < Len(primary_df)
    /\ pos' = pos + 1
    /\ risks' = Append(risks, identify_risk_signals(primary_df, pos + 1, vix_series, pcr_series))
    /\ UNCHANGED <<primary_df, vix_series, pcr_series, phase, row, Composite_Score,
                   alignVars, breadthVars>>

NextRisk == IdentifyRiskSignals

SpecRisk == InitRisk /\ [][NextRisk]_vars

----------------------------------------------------------------------------
(* Properties of the risk signals *)

Emitted(i, title) == \E k \in 1..Len(risks[i]) : risks[i][k][1] = title

Below(i) ==
    /\ ~primary_df[i].MA_50.nan /\ ~primary_df[i].MA_200.nan
    /\ primary_df[i].MA_50.v < primary_df[i].MA_200.v

AtOrAbove(i) ==
    /\ ~primary_df[i].MA_50.nan /\ ~primary_df[i].MA_200.nan
    /\ primary_df[i].MA_50.v >= primary_df[i].MA_200.v

\* C4: evaluated row by row, the death cross is in the result of row i exactly
\* when i is not the first row, ma_50 < ma_200 on row i and ma_50 >= ma_200 on
\* row i-1; so over a run of rows below that follows a row at or above, it
\* appears on the first row of the run and on no later one.
C4_DeathCrossOnTransition ==
    /\ \A i \in 1..pos :
           Emitted(i, "death cross") <=> (i > 1 /\ Below(i) /\ AtOrAbove(i - 1))
    /\ \A k \in 2..pos :
           /\ (AtOrAbove(k - 1) /\ Below(k)) => Emitted(k, "death cross")
           /\ (Below(k - 1) /\ Below(k)) => ~Emitted(k, "death cross")

\* a table of 20 rows, at or above on day 1 and below from day 2 to day 20,
\* evaluated to the end: the signal is on day 2 alone
C4_Witness ==
    /\ pos = Len(primary_df) /\ pos = TailWindow
    /\ AtOrAbove(1) /\ \A k \in 2..pos : Below(k)
    /\ Emitted(2, "death cross")
    /\ \A k \in 3..pos : ~Emitted(k, "death cross")

MaxV(S) == CHOOSE x \in S : \A y \in S : y <= x

\* what the last 20 rows say of row i: its close is within 1% of their highest
\* close and its breadth is under 95% of their highest breadth
NearHighUnconfirmed(i) ==
    LET n == Len(primary_df)
        window == {k \in 1..n : k >= n - 19}
        closes == {primary_df[k].Close.v : k \in {w \in window : ~primary_df[w].Close.nan}}
        breadths == {primary_df[k].Breadth.v : k \in {w \in window : ~primary_df[w].Breadth.nan}}
    IN /\ ~primary_df[i].Close.nan /\ ~primary_df[i].Breadth.nan
       /\ closes # {} /\ breadths # {}
       /\ 100 * primary_df[i].Close.v >= 99 * MaxV(closes)
       /\ 100 * primary_df[i].Breadth.v < 95 * MaxV(breadths)

\* C7: breadth exhaustion is emitted for a row exactly when the row is the
\* most recent one, its close >= 0.99 x the highest close of the last 20 rows
\* and its breadth < 0.95 x the highest breadth of the last 20 rows; it is
\* never emitted for another row, even one of which both tests hold.
C7_BreadthExhaustionLatestOnly ==
    \A i \in 1..pos :
        Emitted(i, "breadth exhaustion")
            <=> (i = Len(primary_df) /\ NearHighUnconfirmed(i))

\* 21 rows: the highest close is on day 1, outside the last 20 rows; day 20
\* and day 21 both pass the two tests, only day 21 gets the signal
C7_Witness ==
    /\ pos = Len(primary_df) /\ pos = TailWindow + 1
    /\ primary_df[1].Close.v > primary_df[pos].Close.v + Q(100, 1)
    /\ NearHighUnconfirmed(pos) /\ NearHighUnconfirmed(pos - 1)
    /\ Emitted(pos, "breadth exhaustion")
    /\ ~Emitted(pos - 1, "breadth exhaustion")

====
